---- MODULE Spec2Model ----
(***************************************************************************)
(* Model of the galileo-university tutorial scripts: the LangGraph agent   *)
(* of step5_agentic_workflows.py (protect_check -> chatbot -> tools loop), *)
(* its main() driver, the row loop of step4_run_with_protect.py, the       *)
(* result polling of step3b_run_your_first_experiment.py, the Azure        *)
(* variant step5b_agentic_workflows_azure.py and the input text of the     *)
(* dataset and trace-logging scripts.                                      *)
(***************************************************************************)
EXTENDS Integers, Sequences, FiniteSets, TLC

\* ------------------------------------------------------------------ bounds
\* Longest input conversation handed to graph.invoke.
MaxInput == 2
\* Most tool rounds the modelled language model asks for in one turn.
MaxRounds == 2
\* Rows of the CSV file step4 reads.
MaxRows == 3
\* Longest path, in tokens, after the host of AZURE_OPENAI_ENDPOINT.
MaxPath == 5
\* Longest final conversation the response extraction is applied to.
MaxConversation == 3

\* ------------------------------------------------------- program constants
\* len(test_queries) in main().
NumQueries == 4
\* step3b: max_wait_time and poll_interval, in seconds.
max_wait_time == 60
poll_interval == 10

None == "None"

\* The system prompt main() passes to build_langgraph_agent (non-empty).
system_prompt == "You are a helpful assistant"

VARIABLES
    script,             \* which script runs: "step5", "step4", "step3b", "step3a", "step5b"
    mainpc,             \* position of the script's top-level code
    stage_name,         \* GALILEO_PROTECT_STAGE_NAME, None when unset
    lookup,             \* outcome of get_protect_stage: notrun/found/none/raise
    protect_stage_id,   \* main()'s protect_stage_id, None or the stage's id
    graph_built,        \* build_langgraph_agent has returned a compiled graph
    qi,                 \* number of test queries started so far
    node,               \* next graph node of the running turn
    messages,           \* state["messages"]
    protect_triggered,  \* state["protect_triggered"]
    initial_state,      \* the state handed to graph.invoke for this turn
    trail,              \* nodes executed in this turn, in order
    protect_calls,      \* inputs sent to ProtectTool.invoke in this turn
    protect_status,     \* what the guardrail service answered in this turn
    llm_calls,          \* per llm.invoke of this turn: state seen, list sent
    error,              \* exception caught by main() for this turn
    result,             \* main()'s result: what the last graph.invoke returned
    row,                \* step4: number of CSV rows started
    row_log,            \* step4: logger/protect calls made for the current row
    open_traces,        \* logger: traces started and not yet concluded
    row_status,         \* step4: what invoke_protect answered for the row
    elapsed_time,       \* step3b: elapsed_time of the polling loop
    experiment,         \* step3b: what the last get_experiment returned
    polls,              \* step3b: number of get_experiment calls made
    report,             \* step3b: per metric, the line the threshold check printed
    exit_code,          \* <<>> while the script runs, <<code>> once it has exited
    csv_row,            \* the CSV row the row loops are processing
    input_text,         \* step3a: the dataset entry's "input", None before
    llm_input,          \* per trace-logging script: the LLM span's input
    azure_endpoint,     \* step5b: AZURE_OPENAI_ENDPOINT, as a sequence of tokens
    azure_api_key,      \* step5b: AZURE_OPENAI_API_KEY, None when unset
    azure_deployment,   \* step5b: AZURE_OPENAI_DEPLOYMENT_NAME, None when unset
    base_url,           \* step5b: base_url given to ChatOpenAI, <<>> before
    session_started,    \* step5b: galileo_logger.start_session was called
    trace_log,          \* step5b: logger calls made for the current query
    response_content    \* step5b: response_content of the last turn, None before

vars == <<script, mainpc, stage_name, lookup, protect_stage_id, graph_built,
          qi, node, messages, protect_triggered, initial_state, trail,
          protect_calls, protect_status, llm_calls, error,
          result, row, row_log, open_traces, row_status,
          elapsed_time, experiment, polls, report, exit_code,
          csv_row, input_text, llm_input,
          azure_endpoint, azure_api_key, azure_deployment, base_url,
          session_started, trace_log, response_content>>

\* State of the step4 row loop.
s4vars == <<row, row_log, open_traces, row_status>>

\* State of the step3b polling loop and threshold check.
s3vars == <<elapsed_time, experiment, polls, report, exit_code>>

\* State of the scripts other than step5 and step4.
\* The row and the input texts built from it.
dsvars == <<csv_row, input_text, llm_input>>

\* State of the Azure agent script.
azvars == <<azure_endpoint, azure_api_key, azure_deployment, base_url,
            session_started, trace_log, response_content>>

xvars == <<s3vars, dsvars, azvars>>

turnvars == <<node, messages, protect_triggered, initial_state, trail,
              protect_calls, protect_status, llm_calls, error>>

\* ---------------------------------------------------------------- messages
Msg(t, c, tc, id) ==
    [type |-> t, content |-> c, tool_calls |-> tc, tool_call_id |-> id]

HumanMessage(c) == Msg("human", c, <<>>, 0)

SystemMessage(c) == Msg("system", c, <<>>, 0)

AIMessage(c, tc) == Msg("ai", c, tc, 0)

ToolMessage(c, id) == Msg("tool", c, <<>>, id)

SeqsUpTo(S, n) == UNION {[1..k -> S] : k \in 0..n}

\* Messages an input conversation is made of.
InputMsgs ==
    { HumanMessage("my SSN is 123-45-6789"), HumanMessage(""),
      SystemMessage("custom instructions"), AIMessage("earlier answer", <<>>) }

InputConversations == SeqsUpTo(InputMsgs, MaxInput)

CountType(msgs, t) == Cardinality({i \in DOMAIN msgs : msgs[i].type = t})

\* ------------------------------------------------------------------- tools
get_weather(location) ==
    CASE location = "san francisco" -> "Sunny, 72F"
      [] location = "new york" -> "Cloudy, 65F"
      [] location = "london" -> "Rainy, 55F"
      [] location = "tokyo" -> "Clear, 75F"
      [] OTHER -> "Weather: Partly cloudy, 68F"

\* A tool call that does not return: the exception leaves the tool.
SystemExit == "raise SystemExit"

\* eval(expression): a value, an Exception, or a BaseException that is not an
\* Exception (exit() and quit() raise SystemExit).
Eval(expression) ==
    CASE expression = "2 + 2" -> "4"
      [] expression = "25 * 4 + 10" -> "110"
      [] expression = "exit()" -> SystemExit
      [] OTHER -> "Exception"

\* try: result = eval(expression) ... except Exception as e: ...
calculate(expression) ==
    CASE Eval(expression) = "Exception" -> "Error calculating"
      [] Eval(expression) = SystemExit -> SystemExit
      [] OTHER -> "Result: " \o Eval(expression)

search_knowledge_base(query) ==
    CASE query = "password reset" -> "To reset your password, go to Settings"
      [] query = "account" -> "Your account information can be found"
      [] query = "billing" -> "Billing information is available"
      [] OTHER -> "Please contact support for more details."

ToolNames == {"get_weather", "calculate", "search_knowledge_base"}

\* ToolNode: one ToolMessage per tool call of the last AI message, in order;
\* an unknown name gives an error text for that call id.
ToolResult(call) ==
    CASE call.name = "get_weather" -> get_weather(call.args)
      [] call.name = "calculate" -> calculate(call.args)
      [] call.name \notin ToolNames -> "Error: not a valid tool"
      [] OTHER -> search_knowledge_base(call.args)

\* Some call of the last AI message raises out of its tool.
ToolRaises(msgs) ==
    \E i \in DOMAIN msgs[Len(msgs)].tool_calls :
        ToolResult(msgs[Len(msgs)].tool_calls[i]) = SystemExit

tool_node(msgs) ==
    LET calls == msgs[Len(msgs)].tool_calls
    IN  [messages |->
            [i \in 1..Len(calls) |-> ToolMessage(ToolResult(calls[i]), calls[i].id)]]

\* Tool-call requests the modelled language model may attach to one reply.
CallChoices ==
    { <<>>,
      <<[name |-> "get_weather", args |-> "tokyo"]>>,
      <<[name |-> "calculate", args |-> "1/0"],
        [name |-> "get_weather", args |-> "paris"]>>,
      <<[name |-> "no_such_tool", args |-> "x"]>>,
      <<[name |-> "calculate", args |-> "exit()"],
        [name |-> "search_knowledge_base", args |-> "password reset"]>> }

WithIds(calls, round) ==
    [i \in 1..Len(calls) |->
        [name |-> calls[i].name, args |-> calls[i].args, id |-> round * 10 + i]]

Rounds(tr) == Cardinality({i \in DOMAIN tr : tr[i] = "tools"})

\* ------------------------------------------------------------ graph state
\* MessagesState: the "messages" key is merged with the add_messages reducer,
\* which appends the returned messages (each gets a fresh id) to the history.
add_messages(left, right) == left \o right

\* graph_builder.add_edge("tools", "chatbot").
ToolsEdgeToEnd == "END"

tools_edge == "chatbot"

\* Merge of a node's partial update into the state.
ApplyMessages(msgs, upd) ==
    IF "messages" \in DOMAIN upd THEN add_messages(msgs, upd.messages) ELSE msgs

ApplyFlag(flag, upd) ==
    IF "protect_triggered" \in DOMAIN upd THEN upd.protect_triggered ELSE flag

\* ----------------------------------------------------------- protect_check
\* Mutant: enabled as soon as a stage name is configured.
ProtectEnabledByName == stage_name # None

protect_enabled == protect_stage_id # None

HumanIdx(msgs) == {i \in DOMAIN msgs : msgs[i].type = "human"}

\* Mutant: the search runs from the front of the list.
LatestIsFirstHuman(msgs) ==
    IF HumanIdx(msgs) = {} THEN None
    ELSE msgs[CHOOSE i \in HumanIdx(msgs) : \A j \in HumanIdx(msgs) : i <= j].content

\* for msg in reversed(state["messages"]): first HumanMessage's content.
latest_message(msgs) ==
    IF HumanIdx(msgs) = {} THEN None
    ELSE msgs[CHOOSE i \in HumanIdx(msgs) : \A j \in HumanIdx(msgs) : j <= i].content

\* "if not latest_message": None or the empty string.
NoInput(msgs) == latest_message(msgs) = None \/ latest_message(msgs) = ""

\* Answers of ProtectTool.invoke + Response.model_validate_json.
ProtectResponses ==
    { [status |-> "triggered", text |-> "blocked"],
      [status |-> "not_triggered", text |-> ""],
      [status |-> "raise", text |-> ""] }

\* Mutant: the override message is returned whatever the status.
ProtectUpdateAlwaysOverrides(resp) ==
    [messages |-> <<AIMessage(resp.text, <<>>)>>,
     protect_triggered |-> resp.status = "triggered"]

\* The update protect_check_node returns for a service response.
protect_update(resp) ==
    IF resp.status = "triggered"
    THEN [messages |-> <<AIMessage(resp.text, <<>>)>>, protect_triggered |-> TRUE]
    ELSE [protect_triggered |-> FALSE]

\* The update returned without calling the service.
protect_skip == [protect_triggered |-> FALSE]

\* Mutant: the conditional edge ignores the flag.
RouteAlwaysChatbot(flag) == "chatbot"

route_after_protect(flag) == IF flag THEN "END" ELSE "chatbot"

\* ----------------------------------------------------------------- chatbot
HasSystem(msgs) == \E i \in DOMAIN msgs : msgs[i].type = "system"

\* Mutant: the system prompt is prepended on every call.
ChatbotAlwaysPrepends(msgs) == <<SystemMessage(system_prompt)>> \o msgs

\* Mutant: the system prompt is added at the end of the list.
ChatbotAppendsPrompt(msgs) ==
    IF system_prompt # "" /\ ~HasSystem(msgs)
    THEN Append(msgs, SystemMessage(system_prompt))
    ELSE msgs

\* The list invoke_chatbot hands to llm.invoke.
chatbot_messages(msgs) ==
    IF system_prompt # "" /\ ~HasSystem(msgs)
    THEN <<SystemMessage(system_prompt)>> \o msgs
    ELSE msgs

\* Mutant: the inserted system prompt is returned with the reply.
ChatbotUpdateWithPrompt(ai_message) ==
    [messages |-> <<SystemMessage(system_prompt), ai_message>>]

\* The update invoke_chatbot returns.
chatbot_update(ai_message) == [messages |-> <<ai_message>>]

\* Mutant: the turn always ends after the model's reply.
ToolsConditionAlwaysEnd(msgs) == "END"

\* Mutant: a caller-side cap of one tool round.
ToolsConditionCapped(msgs) ==
    IF Len(msgs) > 0 /\ Len(msgs[Len(msgs)].tool_calls) > 0
       /\ CountType(msgs, "tool") = 0
    THEN "tools" ELSE "END"

\* langgraph.prebuilt.tools_condition on the last message.
tools_condition(msgs) ==
    IF Len(msgs) > 0 /\ Len(msgs[Len(msgs)].tool_calls) > 0 THEN "tools" ELSE "END"

\* -------------------------------------------------------------------- main
\* main()'s test_queries.
test_queries ==
    << "What's the weather in San Francisco?", "Calculate 25 * 4 + 10",
       "How do I reset my password?", "What's 2 + 2?" >>

\* main()'s result before the first graph.invoke has returned.
NoResult == [messages |-> <<>>, protect_triggered |-> FALSE]

\* Mutant: the graph resumes the thread's saved conversation.
InvokeResumesThread(saved, input) == saved \o input

\* graph_builder.compile() takes no checkpointer: the messages a turn starts
\* from are the input's, whatever an earlier invoke of the graph left.
invoke_start(saved, input) == input

\* The variables of step5 and step4 before the script's first statement.
InitCommon ==
    /\ mainpc = "start"
    /\ stage_name \in {None, "pii-stage"}
    /\ lookup = "notrun"
    /\ protect_stage_id = None
    /\ graph_built = FALSE
    /\ qi = 0
    /\ node = "none"
    /\ messages = <<>>
    /\ protect_triggered = FALSE
    /\ initial_state = [messages |-> <<>>, protect_triggered |-> FALSE]
    /\ trail = <<>>
    /\ protect_calls = <<>>
    /\ protect_status = "none"
    /\ llm_calls = <<>>
    /\ error = "none"
    /\ result = NoResult
    /\ row = 0
    /\ row_log = <<>>
    /\ open_traces = 0
    /\ row_status = "none"

\* step3b before polling starts: elapsed_time = 0, nothing fetched.
NoExperiment == [status |-> None, aggregate_none |-> TRUE, aggregate_metrics |-> <<>>]

S3Init ==
    /\ elapsed_time = 0
    /\ experiment = NoExperiment
    /\ polls = 0
    /\ report = <<>>
    /\ exit_code = <<>>

\* The scripts that add an LLM span for a CSV row.
TraceScripts == {"rag/step2", "step2", "step4"}

NoRow == [user_input_query |-> "", chunk1 |-> "", chunk2 |-> "", chunk3 |-> ""]

\* No input text has been built yet.
DsInit ==
    /\ input_text = None
    /\ llm_input = [t \in TraceScripts |-> None]

\* os.getenv returned None for AZURE_OPENAI_ENDPOINT.
UnsetEndpoint == <<None>>

\* step5b before main() runs, with no Azure setting in the environment.
AzInit ==
    /\ base_url = <<>>
    /\ session_started = FALSE
    /\ trace_log = <<>>
    /\ response_content = None

AzUnset ==
    /\ azure_endpoint = UnsetEndpoint
    /\ azure_api_key = None
    /\ azure_deployment = None
    /\ AzInit

Init ==
    /\ script \in {"step5", "step4"}
    /\ InitCommon
    /\ S3Init
    /\ csv_row = NoRow
    /\ DsInit
    /\ AzUnset

\* Mutant: an id is kept whatever the lookup answered.
StageIdAlways(outcome) == "stage-id"

\* The id main() keeps after get_protect_stage answered `outcome`.
StageIdAfter(outcome) == IF outcome = "found" THEN "stage-id" ELSE None

\* step5 main(): "Check if Protect stage exists".
GetProtectStage ==
    /\ script = "step5" /\ mainpc = "start"
    /\ IF stage_name # None
       THEN \E outcome \in {"found", "none", "raise"} :
                /\ lookup' = outcome
                /\ protect_stage_id' = StageIdAfter(outcome)
       ELSE UNCHANGED <<lookup, protect_stage_id>>
    /\ mainpc' = "build"
    /\ UNCHANGED <<script, stage_name, graph_built, qi, result>>
    /\ UNCHANGED <<turnvars, s4vars, xvars>>

\* step5 main(): build_langgraph_agent(...) returns the compiled graph.
BuildGraph ==
    /\ script = "step5" /\ mainpc = "build"
    /\ graph_built' = TRUE
    /\ mainpc' = "loop"
    /\ UNCHANGED <<script, stage_name, lookup, protect_stage_id, qi, result>>
    /\ UNCHANGED <<turnvars, s4vars, xvars>>

TurnOver == node \in {"END", "raised"}

\* graph.invoke(initial_state, config): START -> protect_check.
StartTurn ==
    /\ script = "step5" /\ mainpc = "loop" /\ node = "none" /\ qi < NumQueries
    /\ \E conv \in InputConversations, flag \in BOOLEAN :
        /\ initial_state' = [messages |-> conv, protect_triggered |-> flag]
        /\ messages' = invoke_start(result.messages, conv)
        /\ protect_triggered' = flag
    /\ qi' = qi + 1
    /\ node' = "protect_check"
    /\ trail' = <<>>
    /\ protect_calls' = <<>>
    /\ protect_status' = "none"
    /\ llm_calls' = <<>>
    /\ error' = "none"
    /\ UNCHANGED <<script, mainpc, stage_name, lookup, protect_stage_id,
                   graph_built, result, s4vars, xvars>>

\* protect_check_node followed by route_after_protect.
ProtectCheck ==
    /\ node = "protect_check"
    /\ trail' = Append(trail, "protect_check")
    /\ IF ~protect_enabled \/ NoInput(messages)
       THEN /\ messages' = ApplyMessages(messages, protect_skip)
            /\ protect_triggered' = ApplyFlag(protect_triggered, protect_skip)
            /\ node' = route_after_protect(protect_triggered')
            /\ UNCHANGED <<protect_calls, protect_status, error>>
       ELSE \E resp \in ProtectResponses :
            /\ protect_calls' = Append(protect_calls, latest_message(messages))
            /\ protect_status' = resp.status
            /\ IF resp.status = "raise"
               THEN /\ node' = "raised"
                    /\ error' = "protect_check"
                    /\ UNCHANGED <<messages, protect_triggered>>
               ELSE /\ messages' = ApplyMessages(messages, protect_update(resp))
                    /\ protect_triggered' =
                           ApplyFlag(protect_triggered, protect_update(resp))
                    /\ node' = route_after_protect(protect_triggered')
                    /\ UNCHANGED error
    /\ UNCHANGED <<script, mainpc, stage_name, lookup, protect_stage_id,
                   graph_built, qi, initial_state, llm_calls, result, s4vars, xvars>>

\* Mutant: the exception of llm.invoke is swallowed and the turn ends.
LlmFaultSwallowed == "END"

\* invoke_chatbot has no try/except: an exception of llm.invoke leaves
\* graph.invoke.
llm_fault_node == "raised"

\* invoke_chatbot followed by tools_condition; llm.invoke may raise.
Chatbot ==
    /\ node = "chatbot"
    /\ trail' = Append(trail, "chatbot")
    /\ llm_calls' = Append(llm_calls,
            [state |-> messages, sent |-> chatbot_messages(messages)])
    /\ \/ /\ node' = llm_fault_node
          /\ error' = "chatbot"
          /\ UNCHANGED messages
       \/ \E calls \in CallChoices :
            /\ Len(calls) > 0 => Rounds(trail) < MaxRounds
            /\ messages' = ApplyMessages(messages,
                   chatbot_update(AIMessage("reply", WithIds(calls, Rounds(trail)))))
            /\ node' = tools_condition(messages')
            /\ UNCHANGED error
    /\ UNCHANGED <<script, mainpc, stage_name, lookup, protect_stage_id,
                   graph_built, qi, protect_triggered, initial_state,
                   protect_calls, protect_status, result, s4vars, xvars>>

\* ToolNode followed by the edge tools -> chatbot. A SystemExit raised by a
\* tool is no Exception: neither ToolNode nor main()'s "except Exception"
\* catches it, and the script ends there.
Tools ==
    /\ node = "tools"
    /\ trail' = Append(trail, "tools")
    /\ IF ToolRaises(messages)
       THEN /\ node' = "aborted"
            /\ mainpc' = "sysexit"
            /\ UNCHANGED messages
       ELSE /\ messages' = ApplyMessages(messages, tool_node(messages))
            /\ node' = tools_edge
            /\ UNCHANGED mainpc
    /\ UNCHANGED <<script, stage_name, lookup, protect_stage_id,
                   graph_built, qi, protect_triggered, initial_state,
                   protect_calls, protect_status, llm_calls, error, result,
                   s4vars, xvars>>

\* main(): graph.invoke has returned or raised; the result or the caught
\* exception is printed and the loop body ends (result is not used again).
EndTurn ==
    /\ script = "step5" /\ mainpc = "loop" /\ TurnOver
    /\ node' = "none"
    /\ messages' = <<>>
    /\ protect_triggered' = FALSE
    /\ initial_state' = [messages |-> <<>>, protect_triggered |-> FALSE]
    /\ trail' = <<>>
    /\ protect_calls' = <<>>
    /\ protect_status' = "none"
    /\ llm_calls' = <<>>
    /\ error' = "none"
    /\ UNCHANGED <<script, mainpc, stage_name, lookup, protect_stage_id,
                   graph_built, qi, result, s4vars, xvars>>

\* main(): the for loop over test_queries is exhausted.
Finish ==
    /\ script = "step5" /\ mainpc = "loop" /\ node = "none" /\ qi = NumQueries
    /\ mainpc' = "done"
    /\ UNCHANGED <<script, stage_name, lookup, protect_stage_id, graph_built,
                   qi, result>>
    /\ UNCHANGED <<turnvars, s4vars, xvars>>

\* Where step4's module code goes after get_protect_stage answered `outcome`.
Step4After(outcome) ==
    CASE outcome = "found" -> "session"
      [] outcome = "none" -> "exit1"
      [] OTHER -> "crashed"

\* step4: stage = get_protect_stage(...); if stage is None: exit(1).
Step4CheckStage ==
    /\ script = "step4" /\ mainpc = "start"
    /\ \E outcome \in {"found", "none", "raise"} :
        /\ lookup' = outcome
        /\ mainpc' = Step4After(outcome)
    /\ UNCHANGED <<script, stage_name, protect_stage_id, graph_built, qi, result>>
    /\ UNCHANGED <<turnvars, s4vars, xvars>>

\* step4: GalileoLogger(...), start_session, read_csv.
Step4StartSession ==
    /\ script = "step4" /\ mainpc = "session"
    /\ mainpc' = "rows"
    /\ UNCHANGED <<script, stage_name, lookup, protect_stage_id, graph_built,
                   qi, result>>
    /\ UNCHANGED <<turnvars, s4vars, xvars>>

Concludes(calls) == Cardinality({i \in DOMAIN calls : calls[i] = "conclude"})

\* step4, top of the loop body: logger.start_trace(...). The logger is not
\* part of the repository: with a trace still open it may accept the new
\* trace or raise.
Step4StartTrace ==
    /\ script = "step4" /\ mainpc = "rows" /\ row < MaxRows
    /\ row' = row + 1
    /\ row_log' = <<"start_trace">>
    /\ row_status' = "none"
    /\ \/ /\ open_traces' = open_traces + 1
          /\ mainpc' = "protect"
       \/ /\ open_traces > 0
          /\ mainpc' = "crashed"
          /\ UNCHANGED open_traces
    /\ UNCHANGED <<script, stage_name, lookup, protect_stage_id, graph_built,
                   qi, result>>
    /\ UNCHANGED <<turnvars, xvars>>

\* Mutant: the triggered branch concludes and flushes the trace.
Step4TriggeredConcludes == <<"conclude", "flush">>

\* Logger calls of the triggered branch: print and continue.
Step4TriggeredCalls == <<>>

\* Logger calls of the else branch, in program order.
Step4PassedCalls ==
    << "add_protect_span", "add_retriever_span", "add_llm_span",
       "conclude", "clear_session", "flush" >>

\* step4: invoke_protect(...) and the test of ruleset_results[0]['status'];
\* a triggered row ends here (continue).
Step4InvokeProtect ==
    /\ script = "step4" /\ mainpc = "protect"
    /\ \E status \in {"triggered", "not_triggered", "raise"} :
        /\ row_status' = status
        /\ IF status = "triggered"
           THEN /\ row_log' = Append(row_log, "invoke_protect") \o Step4TriggeredCalls
                /\ open_traces' = open_traces - Concludes(Step4TriggeredCalls)
                /\ mainpc' = "rows"
           ELSE /\ row_log' = Append(row_log, "invoke_protect")
                /\ mainpc' = (IF status = "raise" THEN "crashed" ELSE "log")
                /\ UNCHANGED open_traces
    /\ UNCHANGED <<script, stage_name, lookup, protect_stage_id, graph_built,
                   qi, result, row>>
    /\ UNCHANGED <<turnvars, xvars>>

\* step4, else branch: the spans, conclude, clear_session, flush.
Step4LogRow ==
    /\ script = "step4" /\ mainpc = "log"
    /\ row_log' = row_log \o Step4PassedCalls
    /\ open_traces' = open_traces - Concludes(Step4PassedCalls)
    /\ mainpc' = "rows"
    /\ UNCHANGED <<script, stage_name, lookup, protect_stage_id, graph_built,
                   qi, result, row, row_status>>
    /\ UNCHANGED <<turnvars, xvars>>

\* step4: the rows are exhausted.
Step4Done ==
    /\ script = "step4" /\ mainpc = "rows" /\ row = MaxRows
    /\ mainpc' = "done"
    /\ UNCHANGED <<script, stage_name, lookup, protect_stage_id, graph_built,
                   qi, result>>
    /\ UNCHANGED <<turnvars, s4vars, xvars>>

Next ==
    \/ GetProtectStage
    \/ BuildGraph
    \/ StartTurn
    \/ ProtectCheck
    \/ Chatbot
    \/ Tools
    \/ EndTurn
    \/ Finish
    \/ Step4CheckStage
    \/ Step4StartSession
    \/ Step4StartTrace
    \/ Step4InvokeProtect
    \/ Step4LogRow
    \/ Step4Done

Spec == Init /\ [][Next]_vars

\* main() as written: each query is a one-message conversation with a false
\* flag, and result keeps what the last successful graph.invoke returned.
MainStartTurn ==
    /\ script = "step5" /\ mainpc = "loop" /\ node = "none" /\ qi < NumQueries
    /\ LET conv == <<HumanMessage(test_queries[qi + 1])>>
       IN  /\ initial_state' = [messages |-> conv, protect_triggered |-> FALSE]
           /\ messages' = invoke_start(result.messages, conv)
           /\ protect_triggered' = FALSE
    /\ qi' = qi + 1
    /\ node' = "protect_check"
    /\ trail' = <<>>
    /\ protect_calls' = <<>>
    /\ protect_status' = "none"
    /\ llm_calls' = <<>>
    /\ error' = "none"
    /\ UNCHANGED <<script, mainpc, stage_name, lookup, protect_stage_id,
                   graph_built, result, s4vars, xvars>>

MainEndTurn ==
    /\ script = "step5" /\ mainpc = "loop" /\ TurnOver
    /\ result' = IF node = "END"
                 THEN [messages |-> messages, protect_triggered |-> protect_triggered]
                 ELSE result
    /\ node' = "none"
    /\ messages' = <<>>
    /\ protect_triggered' = FALSE
    /\ initial_state' = [messages |-> <<>>, protect_triggered |-> FALSE]
    /\ trail' = <<>>
    /\ protect_calls' = <<>>
    /\ protect_status' = "none"
    /\ llm_calls' = <<>>
    /\ error' = "none"
    /\ UNCHANGED <<script, mainpc, stage_name, lookup, protect_stage_id,
                   graph_built, qi, s4vars, xvars>>

InitMain == Init /\ script = "step5"

NextMain ==
    \/ GetProtectStage
    \/ BuildGraph
    \/ MainStartTurn
    \/ ProtectCheck
    \/ Chatbot
    \/ Tools
    \/ MainEndTurn
    \/ Finish

SpecMain == InitMain /\ [][NextMain]_vars

\* graph.invoke runs the nodes of a turn one after the other, synchronously,
\* until none is left to run.
FairSpec ==
    Spec /\ WF_vars(ProtectCheck) /\ WF_vars(Chatbot) /\ WF_vars(Tools)

\* ------------------------------------------------------------------ step3b
\* What main() of step5 and the module code of step4 keep besides mainpc.
s5vars == <<script, stage_name, lookup, protect_stage_id, graph_built, qi,
            result>>

\* The experiment's metrics list, by metric.value, in list order.
metrics ==
    << "ground_truth_adherence", "context_adherence", "context_relevance",
       "completeness", "correctness" >>

\* THRESHOLDS, in hundredths.
THRESHOLDS ==
    [m \in {metrics[i] : i \in DOMAIN metrics} |->
        IF m = "ground_truth_adherence" THEN 75 ELSE 70]

\* f"average_{metric_name}"
average_metric_key(metric_name) == "average_" \o metric_name

ExpectedKeys == {average_metric_key(metrics[i]) : i \in DOMAIN metrics}

\* Average scores the service may report, in hundredths.
Scores == {60, 70, 75}

\* experiment.status as fetched; None when absent or empty.
StatusValues == {None, "running", "Completed", "FAILED", "Error", "cancelled"}

\* str.lower() on the status values.
Lower(status) ==
    CASE status = "Completed" -> "completed"
      [] status = "FAILED"    -> "failed"
      [] status = "Error"     -> "error"
      [] OTHER                -> status

\* Mutant: the status is compared as fetched.
StatusFatalCaseSensitive(status) ==
    status # None /\ status \in {"failed", "error", "cancelled"}

\* status_lower in ['failed', 'error', 'cancelled'], for a truthy status.
status_fatal(status) ==
    status # None /\ Lower(status) \in {"failed", "error", "cancelled"}

\* experiment.aggregate_metrics: None, an empty dict, a dict that lacks one
\* expected key, or a dict with a score for every expected key.
Aggregates ==
    {[aggregate_none |-> TRUE, aggregate_metrics |-> <<>>],
     [aggregate_none |-> FALSE, aggregate_metrics |-> <<>>]}
    \cup {[aggregate_none |-> FALSE,
           aggregate_metrics |-> [k \in ExpectedKeys \ {missing} |-> 75]] :
            missing \in ExpectedKeys}
    \cup {[aggregate_none |-> FALSE, aggregate_metrics |-> f] :
            f \in [ExpectedKeys -> Scores]}

Experiments ==
    {[status |-> st, aggregate_none |-> a.aggregate_none,
      aggregate_metrics |-> a.aggregate_metrics] :
        st \in StatusValues, a \in Aggregates}

\* all_metrics_ready after the check of aggregate_metrics.
all_metrics_ready(exp) ==
    /\ ~exp.aggregate_none
    /\ \A i \in DOMAIN metrics :
          average_metric_key(metrics[i]) \in DOMAIN exp.aggregate_metrics

\* Mutant: the loop polls once more, at elapsed_time = max_wait_time.
KeepPollingInclusive(elapsed) == elapsed <= max_wait_time

\* The while condition of the polling loop.
keep_polling(elapsed) == elapsed < max_wait_time

\* THRESHOLDS.get(metric_name, 0.0)
threshold(metric_name) ==
    IF metric_name \in DOMAIN THRESHOLDS THEN THRESHOLDS[metric_name] ELSE 0

\* Mutant: a score equal to its threshold fails.
PassedStrict(metric_name, avg_score) == avg_score > threshold(metric_name)

\* passed: for "hallucination" lower is better, for the others higher.
passed(metric_name, avg_score) ==
    IF metric_name = "hallucination"
    THEN avg_score <= threshold(metric_name)
    ELSE avg_score >= threshold(metric_name)

\* The line the threshold check prints for one metric.
metric_line(exp, metric_name) ==
    IF /\ ~exp.aggregate_none
       /\ DOMAIN exp.aggregate_metrics # {}
       /\ average_metric_key(metric_name) \in DOMAIN exp.aggregate_metrics
    THEN IF passed(metric_name, exp.aggregate_metrics[average_metric_key(metric_name)])
         THEN "PASS" ELSE "FAIL"
    ELSE "No results available"

threshold_report(exp) == [i \in DOMAIN metrics |-> metric_line(exp, metrics[i])]

all_passed(lines) == \A i \in DOMAIN lines : lines[i] = "PASS"

\* step3b: dataset, prompt template, run_experiment; polling starts.
Step3bRunExperiment ==
    /\ script = "step3b" /\ mainpc = "start"
    /\ mainpc' = "poll"
    /\ UNCHANGED <<s5vars, turnvars, s4vars, xvars>>

\* One iteration of the polling loop: get_experiment, the status check, the
\* metrics-ready check, then break or sleep. get_experiment may raise, which
\* nothing catches.
Step3bPoll ==
    /\ script = "step3b" /\ mainpc = "poll" /\ keep_polling(elapsed_time)
    /\ polls' = polls + 1
    /\ \/ /\ mainpc' = "exited"
          /\ exit_code' = <<1>>
          /\ UNCHANGED <<experiment, elapsed_time>>
       \/ \E exp \in Experiments :
          /\ experiment' = exp
          /\ IF status_fatal(exp.status)
             THEN /\ mainpc' = "exited"
                  /\ exit_code' = <<1>>
                  /\ UNCHANGED elapsed_time
             ELSE IF all_metrics_ready(exp)
             THEN /\ mainpc' = "check"
                  /\ UNCHANGED <<exit_code, elapsed_time>>
             ELSE /\ elapsed_time' = elapsed_time + poll_interval
                  /\ UNCHANGED <<mainpc, exit_code>>
    /\ UNCHANGED report
    /\ UNCHANGED <<s5vars, turnvars, s4vars, dsvars, azvars>>

\* The else clause of the while loop: the wait is over.
Step3bTimeout ==
    /\ script = "step3b" /\ mainpc = "poll" /\ ~keep_polling(elapsed_time)
    /\ mainpc' = "exited"
    /\ exit_code' = <<1>>
    /\ UNCHANGED <<elapsed_time, experiment, polls, report>>
    /\ UNCHANGED <<s5vars, turnvars, s4vars, dsvars, azvars>>

\* KeyboardInterrupt inside the try block.
Step3bInterrupt ==
    /\ script = "step3b" /\ mainpc = "poll"
    /\ mainpc' = "exited"
    /\ exit_code' = <<130>>
    /\ UNCHANGED <<elapsed_time, experiment, polls, report>>
    /\ UNCHANGED <<s5vars, turnvars, s4vars, dsvars, azvars>>

\* The threshold check and the exit that follows it.
Step3bCheck ==
    /\ script = "step3b" /\ mainpc = "check"
    /\ report' = threshold_report(experiment)
    /\ exit_code' = IF all_passed(threshold_report(experiment)) THEN <<0>> ELSE <<1>>
    /\ mainpc' = "exited"
    /\ UNCHANGED <<elapsed_time, experiment, polls>>
    /\ UNCHANGED <<s5vars, turnvars, s4vars, dsvars, azvars>>

Init3b ==
    /\ script = "step3b"
    /\ InitCommon
    /\ S3Init
    /\ csv_row = NoRow
    /\ DsInit
    /\ AzUnset

Next3b ==
    \/ Step3bRunExperiment
    \/ Step3bPoll
    \/ Step3bTimeout
    \/ Step3bInterrupt
    \/ Step3bCheck

Spec3b == Init3b /\ [][Next3b]_vars

\* -------------------------------------------------- input text of the rows
\* Cells of mock_logstream_data.csv.
Queries == {"What is the refund policy?", ""}

Chunks == {"Refunds take 5 days.", "Contact support, please.", ""}

Rows ==
    {[user_input_query |-> q, chunk1 |-> c1, chunk2 |-> c2, chunk3 |-> c3] :
        q \in Queries, c1 \in Chunks, c2 \in Chunks, c3 \in Chunks}

\* context = [row['chunk1'], row['chunk2'], row['chunk3']]
context(r) == <<r.chunk1, r.chunk2, r.chunk3>>

\* sep.join(parts)
RECURSIVE Join(_, _)
Join(sep, parts) ==
    IF parts = <<>> THEN ""
    ELSE IF Len(parts) = 1 THEN parts[1]
    ELSE parts[1] \o sep \o Join(sep, Tail(parts))

\* step3a: input_text of the dataset entry.
step3a_input_text(r) ==
    r.user_input_query \o "\n\n Context Documents: " \o Join(", ", context(r))

\* rag/step2: proper_input, the LLM span's input.
rag_step2_proper_input(r) ==
    r.user_input_query \o "\n\nContext Documents: " \o Join(", ", context(r))

\* step4: proper_input, the LLM span's input.
step4_proper_input(r) ==
    r.user_input_query \o "\n\n Context Documents: " \o Join(" ,", context(r))

\* step2 (engineers): add_llm_span(input=row['user_input_query'], ...).
step2_llm_input(r) == r.user_input_query

\* step3a: one iteration of the loop that builds dataset_content.
Step3aBuildEntry ==
    /\ script = "step3a" /\ input_text = None
    /\ input_text' = step3a_input_text(csv_row)
    /\ UNCHANGED <<csv_row, llm_input>>
    /\ UNCHANGED <<mainpc, s5vars, turnvars, s4vars, s3vars, azvars>>

\* rag/step2: the LLM span added for the same row.
RagStep2AddLlmSpan ==
    /\ script = "step3a" /\ llm_input["rag/step2"] = None
    /\ llm_input' = [llm_input EXCEPT !["rag/step2"] = rag_step2_proper_input(csv_row)]
    /\ UNCHANGED <<csv_row, input_text>>
    /\ UNCHANGED <<mainpc, s5vars, turnvars, s4vars, s3vars, azvars>>

\* step2 (engineers): the LLM span added for the same row.
Step2AddLlmSpan ==
    /\ script = "step3a" /\ llm_input["step2"] = None
    /\ llm_input' = [llm_input EXCEPT !["step2"] = step2_llm_input(csv_row)]
    /\ UNCHANGED <<csv_row, input_text>>
    /\ UNCHANGED <<mainpc, s5vars, turnvars, s4vars, s3vars, azvars>>

\* step4: the LLM span added for the same row when Protect let it pass.
Step4AddLlmSpan ==
    /\ script = "step3a" /\ llm_input["step4"] = None
    /\ llm_input' = [llm_input EXCEPT !["step4"] = step4_proper_input(csv_row)]
    /\ UNCHANGED <<csv_row, input_text>>
    /\ UNCHANGED <<mainpc, s5vars, turnvars, s4vars, s3vars, azvars>>

InitInputText ==
    /\ script = "step3a"
    /\ InitCommon
    /\ S3Init
    /\ csv_row \in Rows
    /\ DsInit
    /\ AzUnset

NextInputText ==
    \/ Step3aBuildEntry
    \/ RagStep2AddLlmSpan
    \/ Step2AddLlmSpan
    \/ Step4AddLlmSpan

SpecInputText == InitInputText /\ [][NextInputText]_vars

\* ------------------------------------------------------------------ step5b
\* The first token of an endpoint: scheme and host.
Host == "https://your-resource.openai.azure.com"

\* Tokens a path after the host is made of; "/" is the slash, the others are
\* text without a slash. Adjacent text tokens read as one segment.
PathTokens == {"/", "openai", "v1", "deployments"}

\* Non-empty endpoint strings: the host followed by a path.
Endpoints == {<<Host>> \o path : path \in SeqsUpTo(PathTokens, MaxPath)}

\* "not x" for a setting read with os.getenv: unset or empty.
Missing(setting) == setting = None \/ setting = ""

MissingEndpoint(endpoint) == endpoint = UnsetEndpoint \/ endpoint = <<>>

\* endpoint.rstrip('/')
RECURSIVE rstrip(_)
rstrip(e) ==
    IF e # <<>> /\ e[Len(e)] = "/" THEN rstrip(SubSeq(e, 1, Len(e) - 1)) ELSE e

\* e.endswith(suffix)
endswith(e, suffix) ==
    /\ Len(e) >= Len(suffix)
    /\ SubSeq(e, Len(e) - Len(suffix) + 1, Len(e)) = suffix

\* "Format the Azure endpoint for LangChain": base_url from azure_endpoint.
format_endpoint(azure_ep) ==
    LET endpoint == rstrip(azure_ep)
    IN  IF ~endswith(endpoint, <<"/", "openai", "/", "v1">>)
        THEN IF endswith(endpoint, <<"/", "openai">>)
             THEN endpoint \o <<"/", "v1">>
             ELSE endpoint \o <<"/", "openai", "/", "v1">>
        ELSE endpoint

\* Mutant: build_langgraph_agent does not look at the deployment name.
ConfigMissingIgnoresDeployment(endpoint, api_key, deployment) ==
    MissingEndpoint(endpoint) \/ Missing(api_key)

\* "Validate Azure configuration" of build_langgraph_agent: a ValueError
\* is raised.
config_missing(endpoint, api_key, deployment) ==
    (MissingEndpoint(endpoint) \/ Missing(api_key)) \/ Missing(deployment)

\* build_langgraph_agent: what it raises, the base_url of the model client
\* it created and whether it returned a compiled graph.
build_langgraph_agent(endpoint, api_key, deployment) ==
    IF config_missing(endpoint, api_key, deployment)
    THEN [raised |-> "ValueError", base_url |-> <<>>, graph |-> FALSE]
    ELSE [raised |-> None, base_url |-> format_endpoint(endpoint), graph |-> TRUE]

\* step5b main(): "Validate Azure configuration".
AzureValidate ==
    /\ script = "step5b" /\ mainpc = "start"
    /\ mainpc' = IF \/ MissingEndpoint(azure_endpoint)
                    \/ Missing(azure_api_key)
                    \/ Missing(azure_deployment)
                 THEN "returned" ELSE "stage"
    /\ UNCHANGED <<s5vars, turnvars, s4vars, xvars>>

\* step5b main(): "Check if Protect stage exists".
AzureGetProtectStage ==
    /\ script = "step5b" /\ mainpc = "stage"
    /\ IF stage_name # None
       THEN \E outcome \in {"found", "none", "raise"} :
                /\ lookup' = outcome
                /\ protect_stage_id' = StageIdAfter(outcome)
       ELSE UNCHANGED <<lookup, protect_stage_id>>
    /\ mainpc' = "build"
    /\ UNCHANGED <<script, stage_name, graph_built, qi, result>>
    /\ UNCHANGED <<turnvars, s4vars, xvars>>

\* step5b main(): "Build the graph", inside try/except Exception.
AzureBuildGraph ==
    /\ script = "step5b" /\ mainpc = "build"
    /\ LET built == build_langgraph_agent(azure_endpoint, azure_api_key,
                                          azure_deployment)
       IN  /\ graph_built' = built.graph
           /\ base_url' = built.base_url
           /\ mainpc' = IF built.raised = None THEN "session" ELSE "returned"
    /\ UNCHANGED <<script, stage_name, lookup, protect_stage_id, qi, result>>
    /\ UNCHANGED <<azure_endpoint, azure_api_key, azure_deployment,
                   session_started, trace_log, response_content>>
    /\ UNCHANGED <<turnvars, s4vars, s3vars, dsvars>>

\* step5b main(): GalileoLogger, start_session, GalileoCallback, config.
AzureStartSession ==
    /\ script = "step5b" /\ mainpc = "session"
    /\ session_started' = TRUE
    /\ mainpc' = "loop"
    /\ UNCHANGED <<azure_endpoint, azure_api_key, azure_deployment, base_url,
                   trace_log, response_content>>
    /\ UNCHANGED <<s5vars, turnvars, s4vars, s3vars, dsvars>>

StartTraceCall(input) == [call |-> "start_trace", output |-> input, raised |-> FALSE]

ConcludeCall(output, raised) == [call |-> "conclude", output |-> output, raised |-> raised]

FlushCall(raised) == [call |-> "flush", output |-> "", raised |-> raised]

\* step5b main(): top of the loop body: start_trace(input=query), then
\* graph.invoke(initial_state, config) starts. The logger is not part of the
\* repository: with a trace still open it may accept the new trace or raise,
\* and start_trace is outside the try block.
AzureStartTurn ==
    /\ script = "step5b" /\ mainpc = "loop" /\ node = "none" /\ qi < NumQueries
    /\ qi' = qi + 1
    /\ trace_log' = <<StartTraceCall(test_queries[qi + 1])>>
    /\ \/ /\ open_traces' = open_traces + 1
          /\ LET conv == <<HumanMessage(test_queries[qi + 1])>>
             IN  /\ initial_state' = [messages |-> conv, protect_triggered |-> FALSE]
                 /\ messages' = invoke_start(result.messages, conv)
          /\ node' = "protect_check"
          /\ UNCHANGED mainpc
       \/ /\ open_traces > 0
          /\ mainpc' = "crashed"
          /\ UNCHANGED <<open_traces, initial_state, messages, node>>
    /\ protect_triggered' = FALSE
    /\ trail' = <<>>
    /\ protect_calls' = <<>>
    /\ protect_status' = "none"
    /\ llm_calls' = <<>>
    /\ error' = "none"
    /\ UNCHANGED <<script, stage_name, lookup, protect_stage_id, graph_built,
                   result>>
    /\ UNCHANGED <<row, row_log, row_status>>
    /\ UNCHANGED <<azure_endpoint, azure_api_key, azure_deployment, base_url,
                   session_started, response_content>>
    /\ UNCHANGED <<s3vars, dsvars>>

\* str(message) of a LangChain message.
Str(msg) == "content='" \o msg.content \o "'"

AiIdx(msgs) == {i \in DOMAIN msgs : msgs[i].type = "ai"}

\* Mutant: the content of the last message, whatever its type.
ResponseOfLastMessage(msgs) ==
    IF msgs = <<>> THEN "" ELSE msgs[Len(msgs)].content

\* response_content: the content of the last AIMessage; without one, the
\* string form of the last message; "" for an empty list.
response_of(msgs) ==
    IF msgs = <<>> THEN ""
    ELSE IF AiIdx(msgs) # {}
    THEN msgs[CHOOSE i \in AiIdx(msgs) : \A j \in AiIdx(msgs) : j <= i].content
    ELSE Str(msgs[Len(msgs)])

\* f"Error: {str(e)}" for the exception raised at `where`.
ErrorText(where) == "Error: " \o where \o " failed"

\* The except branch: conclude(output=f"Error: ..."), which may itself raise.
HandlerCalls(where) == {<<ConcludeCall(ErrorText(where), r)>> : r \in BOOLEAN}

\* The try block after graph.invoke returned: conclude(output=
\* response_content), flush(); when one of them raises, the except branch.
SuccessCalls(content) ==
    {<<ConcludeCall(content, FALSE), FlushCall(FALSE)>>}
    \cup {<<ConcludeCall(content, FALSE), FlushCall(TRUE)>> \o h :
            h \in HandlerCalls("flush")}
    \cup {<<ConcludeCall(content, TRUE)>> \o h : h \in HandlerCalls("conclude")}

\* conclude calls of `calls` that returned.
Concluded(calls) ==
    Cardinality({i \in DOMAIN calls : calls[i].call = "conclude" /\ ~calls[i].raised})

\* step5b main(): graph.invoke has returned or raised an Exception; the rest
\* of the loop body. An exception of the except branch's conclude leaves
\* main().
AzureEndTurn ==
    /\ script = "step5b" /\ mainpc = "loop" /\ TurnOver
    /\ \E calls \in (IF node = "END" THEN SuccessCalls(response_of(messages))
                     ELSE HandlerCalls(error)) :
        /\ trace_log' = trace_log \o calls
        /\ open_traces' = IF open_traces > Concluded(calls)
                          THEN open_traces - Concluded(calls) ELSE 0
        /\ mainpc' = IF calls[Len(calls)].raised THEN "crashed" ELSE "loop"
    /\ response_content' = IF node = "END" THEN response_of(messages) ELSE None
    /\ result' = IF node = "END"
                 THEN [messages |-> messages, protect_triggered |-> protect_triggered]
                 ELSE result
    /\ node' = "none"
    /\ messages' = <<>>
    /\ protect_triggered' = FALSE
    /\ initial_state' = [messages |-> <<>>, protect_triggered |-> FALSE]
    /\ trail' = <<>>
    /\ protect_calls' = <<>>
    /\ protect_status' = "none"
    /\ llm_calls' = <<>>
    /\ error' = "none"
    /\ UNCHANGED <<script, stage_name, lookup, protect_stage_id, graph_built, qi>>
    /\ UNCHANGED <<row, row_log, row_status>>
    /\ UNCHANGED <<azure_endpoint, azure_api_key, azure_deployment, base_url,
                   session_started>>
    /\ UNCHANGED <<s3vars, dsvars>>

\* step5b main(): the for loop over test_queries is exhausted.
AzureFinish ==
    /\ script = "step5b" /\ mainpc = "loop" /\ node = "none" /\ qi = NumQueries
    /\ mainpc' = "done"
    /\ UNCHANGED <<s5vars, turnvars, s4vars, xvars>>

\* Settings as main() may find them in the environment.
AzureEndpoints == {UnsetEndpoint, <<>>, <<Host, "/">>}

InitAzure ==
    /\ script = "step5b"
    /\ InitCommon
    /\ S3Init
    /\ csv_row = NoRow
    /\ DsInit
    /\ azure_endpoint \in AzureEndpoints
    /\ azure_api_key \in {None, "", "key"}
    /\ azure_deployment \in {None, "", "my-gpt4"}
    /\ AzInit

NextAzure ==
    \/ AzureValidate
    \/ AzureGetProtectStage
    \/ AzureBuildGraph
    \/ AzureStartSession
    \/ AzureStartTurn
    \/ ProtectCheck
    \/ Chatbot
    \/ Tools
    \/ AzureEndTurn
    \/ AzureFinish

SpecAzure == InitAzure /\ [][NextAzure]_vars

\* build_langgraph_agent applied to every endpoint, with key and deployment
\* set.
InitEndpoint ==
    /\ script = "step5b"
    /\ InitCommon
    /\ S3Init
    /\ csv_row = NoRow
    /\ DsInit
    /\ azure_endpoint \in Endpoints
    /\ azure_api_key = "key"
    /\ azure_deployment = "my-gpt4"
    /\ AzInit

NextEndpoint ==
    \/ AzureValidate
    \/ AzureGetProtectStage
    \/ AzureBuildGraph

SpecEndpoint == InitEndpoint /\ [][NextEndpoint]_vars

\* The response extraction applied to every final conversation.
ExtractMsgs ==
    { HumanMessage("What's 2 + 2?"), AIMessage("4", <<>>),
      AIMessage("", <<>>), ToolMessage("Result: 4", 1) }

FinalConversations == SeqsUpTo(ExtractMsgs, MaxConversation)

ExtractResponse ==
    /\ script = "step5b" /\ mainpc = "extract" /\ response_content = None
    /\ response_content' = response_of(result.messages)
    /\ UNCHANGED <<azure_endpoint, azure_api_key, azure_deployment, base_url,
                   session_started, trace_log>>
    /\ UNCHANGED <<mainpc, s5vars, turnvars, s4vars, s3vars, dsvars>>

InitResponse ==
    /\ script = "step5b"
    /\ mainpc = "extract"
    /\ stage_name = None
    /\ lookup = "notrun"
    /\ protect_stage_id = None
    /\ graph_built = TRUE
    /\ qi = 1
    /\ node = "none"
    /\ messages = <<>>
    /\ protect_triggered = FALSE
    /\ initial_state = [messages |-> <<>>, protect_triggered |-> FALSE]
    /\ trail = <<>>
    /\ protect_calls = <<>>
    /\ protect_status = "none"
    /\ llm_calls = <<>>
    /\ error = "none"
    /\ result \in [messages : FinalConversations, protect_triggered : {FALSE}]
    /\ row = 0
    /\ row_log = <<>>
    /\ open_traces = 0
    /\ row_status = "none"
    /\ S3Init
    /\ csv_row = NoRow
    /\ DsInit
    /\ AzUnset

SpecResponse == InitResponse /\ [][ExtractResponse]_vars

\* ------------------------------------------------------------------ claims
Last(s) == s[Len(s)]

Override == AIMessage("blocked", <<>>)

\* C1: in a turn where the guardrail reports "triggered", the conversation
\* the graph returns is exactly one message, the override text.
C1_TriggeredLeavesOnlyOverride ==
    (node = "END" /\ protect_status = "triggered") => messages = <<Override>>

\* C2: a triggered guardrail sends the turn straight from protect_check to
\* END with the flag set and without any model or tool step; and the flag is
\* set at END only when the service was called and answered "triggered".
C2_TriggeredSkipsModel ==
    /\ protect_status = "triggered" =>
           /\ node = "END"
           /\ trail = <<"protect_check">>
           /\ llm_calls = <<>>
           /\ protect_triggered
    /\ (node = "END" /\ protect_triggered) =>
           /\ protect_status = "triggered"
           /\ Len(protect_calls) = 1

C2_Witness ==
    /\ node = "END" /\ protect_status = "triggered"
    /\ Len(initial_state.messages) = MaxInput

\* C3: with no protect stage id the service is never called, protect_check
\* always hands over to chatbot, and the flag is false from then on.
C3_DisabledNeverCalls ==
    (graph_built /\ protect_stage_id = None) =>
        /\ protect_calls = <<>>
        /\ protect_status = "none"
        /\ trail # <<>> => ~protect_triggered
        /\ Len(trail) = 1 => node = "chatbot"

C3_Witness ==
    /\ graph_built /\ protect_stage_id = None
    /\ node = "END"
    /\ initial_state.protect_triggered
    /\ ~NoInput(initial_state.messages)

\* C4: when the guardrail answers "not triggered", protect_check leaves the
\* messages as they were: the state chatbot first sees is the input.
C4_ClearLeavesMessages ==
    protect_status = "not_triggered" =>
        /\ Len(trail) = 1 => (messages = initial_state.messages /\ node = "chatbot")
        /\ llm_calls # <<>> => llm_calls[1].state = initial_state.messages

C4_Witness ==
    /\ protect_status = "not_triggered"
    /\ llm_calls # <<>>
    /\ Len(initial_state.messages) = MaxInput

\* C5: a failing guardrail call does not abort the turn: it counts as "not
\* triggered", the flag is false and the turn goes on to chatbot.
C5_FaultPassesThrough ==
    protect_status = "raise" =>
        /\ node \in {"chatbot", "tools", "END"}
        /\ ~protect_triggered
        /\ llm_calls # <<>> \/ node = "chatbot"

\* C6 (as stated): a configured stage that is missing, or whose lookup
\* fails, stops the program before the graph is built and before any turn.
C6_MissingStageIsFatal ==
    (stage_name # None /\ lookup \in {"none", "raise"}) =>
        (~graph_built /\ qi = 0)

\* C6 (amended): in the agent script a missing stage or a failed lookup only
\* disables the guardrail: the id stays None, the graph is built, turns run
\* and the service is never called; in step4 the script stops instead.
C6_MissingStageDisablesProtect ==
    /\ (script = "step5" /\ lookup \in {"none", "raise"}) =>
           /\ protect_stage_id = None
           /\ mainpc = "build" => ENABLED BuildGraph
           /\ mainpc \in {"loop", "done"} => graph_built
           /\ (mainpc = "loop" /\ node = "none" /\ qi < NumQueries) =>
                  ENABLED StartTurn
           /\ protect_calls = <<>>
    /\ (script = "step4" /\ lookup \in {"none", "raise"}) =>
           /\ mainpc \in {"exit1", "crashed"}
           /\ ~graph_built
           /\ qi = 0

C6_Witness ==
    /\ script = "step5" /\ stage_name # None /\ lookup = "raise"
    /\ graph_built /\ qi = NumQueries /\ node = "END"

\* C7: when the state already holds a system message, the list sent to the
\* model is the state itself, on the first call and on every re-entry.
C7_NoSecondSystemMessage ==
    \A i \in DOMAIN llm_calls :
        HasSystem(llm_calls[i].state) => llm_calls[i].sent = llm_calls[i].state

C7_Witness ==
    \E i \in DOMAIN llm_calls : i >= 2 /\ HasSystem(llm_calls[i].state)

\* C8 (as stated): the list the model is invoked with holds exactly one
\* system message, and it is the first one.
C8_OneSystemAtHead ==
    \A i \in DOMAIN llm_calls :
        /\ CountType(llm_calls[i].sent, "system") = 1
        /\ llm_calls[i].sent[1].type = "system"

\* C8 (amended): the prompt is put at the head of the list sent exactly when
\* the state holds no system message; otherwise the state is sent as it is.
\* The state itself never gains a system message.
C8_PromptAtHeadWhenAbsent ==
    /\ \A i \in DOMAIN llm_calls :
          LET c == llm_calls[i]
          IN  /\ c.sent # <<>> /\ HasSystem(c.sent)
              /\ ~HasSystem(c.state) =>
                     /\ c.sent[1] = SystemMessage(system_prompt)
                     /\ CountType(c.sent, "system") = 1
                     /\ SubSeq(c.sent, 2, Len(c.sent)) = c.state
              /\ HasSystem(c.state) =>
                     CountType(c.sent, "system") = CountType(c.state, "system")
    /\ CountType(messages, "system") = CountType(initial_state.messages, "system")

C8_Witness ==
    \E i \in DOMAIN llm_calls : i >= 2 /\ ~HasSystem(llm_calls[i].state)

C10_OneReplyThenRoute ==
    (trail # <<>> /\ Last(trail) = "chatbot" /\ node # "raised") =>
        /\ Len(messages) = Len(Last(llm_calls).state) + 1
        /\ SubSeq(messages, 1, Len(messages) - 1) = Last(llm_calls).state
        /\ Last(messages).type = "ai"
        /\ node = (IF Len(Last(messages).tool_calls) > 0 THEN "tools" ELSE "END")
        /\ protect_triggered = FALSE
        /\ Len(llm_calls) = Len(trail) \div 2

C10_Witness ==
    /\ trail # <<>> /\ Last(trail) = "chatbot" /\ node = "tools"
    /\ Len(Last(messages).tool_calls) = 2

\* The assistant message whose tool calls the last tools step served.
ReqIdx == Len(Last(llm_calls).state) + 1

Requests == messages[ReqIdx].tool_calls

AfterTools == trail # <<>> /\ Last(trail) = "tools"

\* C11: a tools step for an assistant message with k tool calls appends
\* exactly k tool messages, in request order, each with its request's call id,
\* also when an earlier call of the message failed.
C11_OneResultPerCall ==
    AfterTools =>
        /\ Len(messages) = ReqIdx + Len(Requests)
        /\ \A i \in DOMAIN Requests :
              /\ messages[ReqIdx + i].type = "tool"
              /\ messages[ReqIdx + i].tool_call_id = Requests[i].id

\* C12: an unknown tool name or a failing tool invocation gives a tool
\* message with an error text for that call id, and the turn goes on to
\* chatbot; the turn is not aborted.
C12_ToolFailureBecomesText ==
    AfterTools =>
        /\ node = "chatbot"
        /\ mainpc = "loop"
        /\ \A i \in DOMAIN Requests :
              (Requests[i].name \notin ToolNames \/ Requests[i].args \in {"1/0", "exit()"})
                  => \E j \in DOMAIN messages :
                        /\ messages[j].type = "tool"
                        /\ messages[j].tool_call_id = Requests[i].id
                        /\ messages[j].content \in
                               {"Error: not a valid tool", "Error calculating"}

\* C13: an exception of llm.invoke aborts the turn: nothing is appended for
\* that call, no further node runs, and main() catches the exception.
C13_LlmFaultAbortsTurn ==
    error = "chatbot" =>
        /\ node = "raised"
        /\ Last(trail) = "chatbot"
        /\ messages = Last(llm_calls).state
        /\ ~(ENABLED ProtectCheck \/ ENABLED Chatbot \/ ENABLED Tools)
        /\ ENABLED EndTurn

C13_Witness ==
    error = "chatbot" /\ Len(llm_calls) >= 2

\* C19: every tool of the tool set returns a text for the arguments it is
\* called with; none of them raises.
C19_ToolsNeverRaise ==
    node = "tools" =>
        \A i \in DOMAIN Last(messages).tool_calls :
            Last(messages).tool_calls[i].name \in ToolNames
                => ToolResult(Last(messages).tool_calls[i]) # SystemExit

IsPrefix(a, b) == Len(a) <= Len(b) /\ SubSeq(b, 1, Len(a)) = a

InTurn == node \in {"protect_check", "chatbot", "tools"}

\* C14: in every node step the old message list is a prefix of the new one,
\* except in the step where the guardrail triggers, where the list becomes
\* the single rejection message.
C14_GrowsOrIsReplaced ==
    [][InTurn =>
          IF node = "protect_check" /\ protect_status' = "triggered"
          THEN messages' = <<Override>>
          ELSE IsPrefix(messages, messages')]_vars

\* Tool calls requested by the assistant messages after the first n messages.
RECURSIVE SumCalls(_, _)
SumCalls(msgs, n) ==
    IF Len(msgs) <= n THEN 0
    ELSE Len(Last(msgs).tool_calls) + SumCalls(SubSeq(msgs, 1, Len(msgs) - 1), n)

\* C15: a turn that is not triggered and ends, with n input messages and r
\* tool rounds of c_1..c_r calls, returns n + r + (c_1+...+c_r) + 1 messages,
\* the last one an assistant message without tool calls, and a false flag;
\* one user message with one tool call gives user, assistant, tool, assistant.
C15_FinalLength ==
    (node = "END" /\ protect_status # "triggered") =>
        LET n == Len(initial_state.messages)
            r == Rounds(trail)
        IN  /\ Len(messages) = n + r + SumCalls(messages, n) + 1
            /\ Last(messages).type = "ai"
            /\ Len(Last(messages).tool_calls) = 0
            /\ ~protect_triggered
            /\ (n = 1 /\ initial_state.messages[1].type = "human"
                  /\ r = 1 /\ SumCalls(messages, n) = 1) =>
                   [i \in 1..Len(messages) |-> messages[i].type]
                       = <<"human", "ai", "tool", "ai">>

C15_Witness ==
    /\ node = "END" /\ protect_status = "not_triggered"
    /\ Len(initial_state.messages) = 1 /\ Rounds(trail) = 1
    /\ Len(messages) = 4

\* The model's reply asks for tools.
RequestTools == Chatbot /\ node' = "tools"

LastHumanContent(msgs) ==
    IF \A i \in DOMAIN msgs : msgs[i].type # "human" THEN None
    ELSE LET k == CHOOSE i \in DOMAIN msgs :
                     /\ msgs[i].type = "human"
                     /\ \A j \in DOMAIN msgs : msgs[j].type = "human" => j <= i
         IN  msgs[k].content

\* C17 (as stated): with the guardrail enabled, the service call is skipped
\* exactly when the conversation holds no user message.
C17_SkipsOnlyWithoutUser ==
    (protect_stage_id # None /\ trail # <<>>) =>
        (protect_calls = <<>> <=> HumanIdx(initial_state.messages) = {})

\* C17 (amended): with the guardrail enabled, the service is called at most
\* once per turn, with the content of the latest user message; the call is
\* skipped, the flag false and the messages untouched, exactly when there is
\* no user message or the latest one has empty content.
C17_CallsOnceWithLatestUser ==
    (protect_stage_id # None /\ trail # <<>>) =>
        LET latest == LastHumanContent(initial_state.messages)
        IN  /\ Len(protect_calls) <= 1
            /\ protect_calls = <<>> <=> latest \in {None, ""}
            /\ protect_calls # <<>> => protect_calls[1] = latest
            /\ protect_calls = <<>> =>
                   /\ ~protect_triggered
                   /\ IsPrefix(initial_state.messages, messages)
                   /\ Len(trail) = 1 => node = "chatbot"

C17_Witness ==
    /\ protect_stage_id # None /\ node = "END"
    /\ Len(protect_calls) = 1
    /\ Len(initial_state.messages) = 2
    /\ initial_state.messages[1].type = "human"
    /\ initial_state.messages[2].type = "ai"

\* C18: a turn of main() starts from its own query only: nothing of an
\* earlier turn's conversation or flag is in the state of a later turn.
C18_TurnsAreIndependent ==
    (mainpc = "loop" /\ node # "none") =>
        /\ initial_state.messages = <<HumanMessage(test_queries[qi])>>
        /\ trail = <<>> => (messages = initial_state.messages /\ ~protect_triggered)
        /\ IsPrefix(initial_state.messages, messages)
        /\ \A i \in DOMAIN messages :
              messages[i].type = "human" => messages[i].content = test_queries[qi]
        /\ \A i \in DOMAIN llm_calls : llm_calls[i].state[1] = initial_state.messages[1]
        /\ protect_triggered => protect_status = "triggered"
        /\ (node = "END" /\ protect_status # "triggered") =>
               Len(messages) = 1 + Rounds(trail) + SumCalls(messages, 1) + 1

C18_Witness ==
    /\ qi >= 2 /\ node = "END" /\ ~protect_triggered
    /\ result.protect_triggered /\ Len(result.messages) = 2
    /\ Len(messages) > 2

\* C20: in step4 a triggered row makes no logger call after start_trace and
\* the protect call, so its trace is still open when the next row starts; a
\* row that is not triggered makes its calls in the order start_trace,
\* protect, protect span, retriever span, LLM span, conclude, clear_session,
\* flush.
C20_TriggeredRowLogsNothing ==
    (script = "step4" /\ mainpc = "rows" /\ row > 0) =>
        /\ row_status = "triggered" =>
               /\ row_log = <<"start_trace", "invoke_protect">>
               /\ open_traces >= 1
               /\ row < MaxRows => ENABLED Step4StartTrace
        /\ row_status = "not_triggered" =>
               row_log = << "start_trace", "invoke_protect", "add_protect_span",
                            "add_retriever_span", "add_llm_span", "conclude",
                            "clear_session", "flush" >>
        /\ row_status \in {"triggered", "not_triggered"}

C20_Witness ==
    /\ script = "step4" /\ mainpc = "rows" /\ row = 2
    /\ row_status = "not_triggered" /\ open_traces = 1

\* What the last fetched experiment reports for a metric.
Average(metric_name) == experiment.aggregate_metrics["average_" \o metric_name]

AllFivePresent ==
    /\ ~experiment.aggregate_none
    /\ { "average_ground_truth_adherence", "average_context_adherence",
         "average_context_relevance", "average_completeness",
         "average_correctness" } \subseteq DOMAIN experiment.aggregate_metrics

AllAtLeastThreshold ==
    /\ Average("ground_truth_adherence") >= 75
    /\ Average("context_adherence") >= 70
    /\ Average("context_relevance") >= 70
    /\ Average("completeness") >= 70
    /\ Average("correctness") >= 70

FetchedFatal == polls > 0 /\ experiment.status \in {"FAILED", "Error", "cancelled"}

\* C21: step3b exits with code 0 exactly when polling ended on an experiment
\* that has all five expected averages and each of them is at least its
\* threshold; every other exit is non-zero; and whenever the threshold check
\* is reached all expected keys are present, so no metric is ever reported
\* as having no results.
C21_ExitZeroIffAllPass ==
    /\ mainpc = "exited" =>
          /\ exit_code \in {<<0>>, <<1>>, <<130>>}
          /\ exit_code = <<0>> <=>
                (~FetchedFatal /\ AllFivePresent /\ AllAtLeastThreshold)
    /\ (mainpc = "check" \/ report # <<>>) => AllFivePresent
    /\ \A i \in DOMAIN report : report[i] \in {"PASS", "FAIL"}
    /\ report # <<>> => Len(report) = 5

C21_Witness ==
    /\ mainpc = "exited" /\ exit_code = <<0>> /\ polls = 3
    /\ Average("ground_truth_adherence") = 75
    /\ Average("correctness") = 70

\* C22 as stated: the loop fetches at most six times, and a run in which no
\* poll found all metrics exits with code 1 without evaluating a threshold.
C22_NotReadyExitsOne ==
    /\ polls <= 6
    /\ (mainpc = "exited" /\ ~AllFivePresent) =>
          (exit_code = <<1>> /\ report = <<>>)

\* C22, amended: the loop fetches at most six times, at elapsed 0, 10, ...,
\* 50, and then stops; a run in which no poll found all metrics exits
\* without evaluating a threshold, with code 1, or with code 130 when the
\* wait is interrupted from the keyboard.
C22_NotReadyExitsNonZero ==
    /\ polls <= 6
    /\ mainpc = "poll" =>
          /\ elapsed_time = 10 * polls
          /\ polls = 6 => (~ENABLED Step3bPoll /\ ENABLED Step3bTimeout)
          /\ polls < 6 => ~ENABLED Step3bTimeout
    /\ (mainpc = "exited" /\ ~AllFivePresent) =>
          (exit_code \in {<<1>>, <<130>>} /\ report = <<>>)
    /\ (mainpc = "exited" /\ exit_code = <<130>>) => ~AllFivePresent

C22_Witness ==
    /\ mainpc = "exited" /\ polls = 6 /\ elapsed_time = 60
    /\ exit_code = <<1>> /\ ~AllFivePresent /\ ~FetchedFatal

\* C23: when a fetched experiment has status failed, error or cancelled, in
\* any letter case, the script exits with code 1 at that poll, before the
\* metrics are looked at: no threshold is evaluated and no pass is reported,
\* even with all averages present and above threshold.
C23_FatalStatusExitsOne ==
    FetchedFatal =>
        /\ mainpc = "exited"
        /\ exit_code = <<1>>
        /\ report = <<>>

C23_Witness ==
    /\ FetchedFatal /\ experiment.status = "FAILED"
    /\ AllFivePresent /\ AllAtLeastThreshold
    /\ mainpc = "exited" /\ polls = 2

\* C27: for every CSV row, the input text of step3a's dataset entry equals
\* the LLM-span input the trace-logging scripts build for the same row.
C27_DatasetInputMatchesTraces ==
    \A t \in TraceScripts :
        (input_text # None /\ llm_input[t] # None) => input_text = llm_input[t]

\* The query of step5b's loop has run to the end of the loop body.
QueryDone ==
    /\ script = "step5b" /\ node = "none"
    /\ mainpc \in {"loop", "done", "crashed"}
    /\ Len(trace_log) > 1

Calls(name) == {i \in DOMAIN trace_log : trace_log[i].call = name}

\* C24: in step5b every trace started for a query is concluded exactly
\* once: with the extracted response when graph.invoke succeeded, with an
\* "Error: ..." text when it raised, also when conclude or flush raises in
\* the try block; and flush is called only on the success path.
C24_ConcludedExactlyOnce ==
    QueryDone =>
        /\ Cardinality(Calls("conclude")) = 1
        /\ \A i \in Calls("conclude") :
              /\ ~trace_log[i].raised
              /\ response_content # None => trace_log[i].output = response_content
              /\ response_content = None =>
                     trace_log[i].output \in {ErrorText("chatbot"), ErrorText("protect_check")}
        /\ Calls("flush") # {} => response_content # None

SettingsMissing ==
    \/ azure_endpoint = UnsetEndpoint \/ azure_endpoint = <<>>
    \/ azure_api_key \in {None, ""}
    \/ azure_deployment \in {None, ""}

\* C25: in step5b, when AZURE_OPENAI_ENDPOINT, AZURE_OPENAI_API_KEY or
\* AZURE_OPENAI_DEPLOYMENT_NAME is missing or empty, build_langgraph_agent
\* raises a configuration error with no model client and no graph created,
\* and main() returns without starting a session, a trace or a query.
C25_MissingSettingStopsMain ==
    (script = "step5b" /\ SettingsMissing) =>
        /\ build_langgraph_agent(azure_endpoint, azure_api_key, azure_deployment)
               = [raised |-> "ValueError", base_url |-> <<>>, graph |-> FALSE]
        /\ mainpc \in {"start", "returned"}
        /\ ~graph_built /\ base_url = <<>>
        /\ ~session_started
        /\ trace_log = <<>> /\ open_traces = 0
        /\ qi = 0 /\ node = "none" /\ llm_calls = <<>>

C25_Witness ==
    /\ script = "step5b" /\ mainpc = "returned"
    /\ azure_endpoint = <<Host, "/">> /\ azure_api_key = "key"
    /\ azure_deployment = ""

\* Path segments of `url` that are exactly `name`.
Segments(url, name) ==
    Cardinality({i \in DOMAIN url :
        /\ url[i] = name
        /\ i > 1 /\ url[i - 1] = "/"
        /\ (i = Len(url) \/ url[i + 1] = "/")})

\* C26: for every non-empty endpoint the base URL ends with /openai/v1, has
\* no trailing slash and no second /openai or /v1 segment, and formatting
\* it again leaves it unchanged.
C26_EndsWithOpenaiV1Once ==
    base_url # <<>> =>
        /\ endswith(base_url, <<"/", "openai", "/", "v1">>)
        /\ base_url[Len(base_url)] # "/"
        /\ Segments(base_url, "openai") = 1
        /\ Segments(base_url, "v1") = 1
        /\ format_endpoint(base_url) = base_url

\* C28: in main() a failed turn does not stop the run: the four test
\* queries are each attempted once, in list order, however many earlier
\* turns failed.
C28_AllQueriesAttempted ==
    /\ mainpc \in {"start", "build", "loop", "done"}
    /\ mainpc = "done" => qi = NumQueries
    /\ (mainpc = "loop" /\ node # "none") =>
          initial_state.messages = <<HumanMessage(test_queries[qi])>>
    /\ (mainpc = "loop" /\ node = "raised") => ENABLED MainEndTurn

\* C29: the response of a successful turn is the content of the last
\* assistant message of the final conversation, tool results after it being
\* skipped; without an assistant message it is the string form of the last
\* message, and for an empty conversation the empty string.
C29_ResponseIsLastAssistant ==
    (mainpc = "extract" /\ response_content # None) =>
        LET msgs == result.messages
            ai   == {i \in DOMAIN msgs : msgs[i].type = "ai"}
        IN  /\ msgs = <<>> => response_content = ""
            /\ ai # {} =>
                  \E i \in ai :
                      /\ \A j \in DOMAIN msgs : j > i => msgs[j].type # "ai"
                      /\ response_content = msgs[i].content
            /\ (msgs # <<>> /\ ai = {}) =>
                  response_content = "content='" \o msgs[Len(msgs)].content \o "'"

C29_Witness ==
    /\ mainpc = "extract" /\ response_content = "4"
    /\ Len(result.messages) = 3
    /\ result.messages[2].type = "ai"
    /\ result.messages[3].type = "tool"

====
